---- MODULE Spec2Model ----
(***************************************************************************)
(* Model of the xlam-server function-calling gateway:                      *)
(*   src/src/engine.py      dispatch router, backend adapters, response     *)
(*                          normalizer, function-call extraction            *)
(*   src/src/formatting.py  tool formatter                                  *)
(*   src/src/server.py      chat-completions front door                     *)
(*   src/src/function_registry.py  function registry                        *)
(*                                                                         *)
(* Python values are tagged records [t, v].  A Python str is a sequence of  *)
(* one-character strings, so that formatting, serialisation, regular        *)
(* expression search and JSON parsing are computed character by character.  *)
(* A Python dict is an insertion-ordered sequence of <<key, value>> pairs.  *)
(***************************************************************************)
EXTENDS Integers, Sequences, FiniteSets, TLC

(***************************************************************************)
(* Bounds of the model.                                                    *)
(***************************************************************************)
MaxFrags == 4
MaxTools == 2
MaxMessages == 3
MaxRegistrations == 3

(***************************************************************************)
(* String literals of the source, as character sequences.                  *)
(***************************************************************************)
S_null == <<"n", "u", "l", "l">>
S_true == <<"t", "r", "u", "e">>
S_false == <<"f", "a", "l", "s", "e">>
S_name == <<"n", "a", "m", "e">>
S_description == <<"d", "e", "s", "c", "r", "i", "p", "t", "i", "o", "n">>
S_parameters == <<"p", "a", "r", "a", "m", "e", "t", "e", "r", "s">>
S_function == <<"f", "u", "n", "c", "t", "i", "o", "n">>
S_type == <<"t", "y", "p", "e">>
S_tools == <<"t", "o", "o", "l", "s">>
S_choices == <<"c", "h", "o", "i", "c", "e", "s">>
S_response == <<"r", "e", "s", "p", "o", "n", "s", "e">>
S_created_at == <<"c", "r", "e", "a", "t", "e", "d", "_", "a", "t">>
S_id == <<"i", "d">>
S_object == <<"o", "b", "j", "e", "c", "t">>
S_created == <<"c", "r", "e", "a", "t", "e", "d">>
S_model == <<"m", "o", "d", "e", "l">>
S_index == <<"i", "n", "d", "e", "x">>
S_message == <<"m", "e", "s", "s", "a", "g", "e">>
S_role == <<"r", "o", "l", "e">>
S_content == <<"c", "o", "n", "t", "e", "n", "t">>
S_function_call == <<"f", "u", "n", "c", "t", "i", "o", "n", "_", "c", "a", "l", "l">>
S_finish_reason == <<"f", "i", "n", "i", "s", "h", "_", "r", "e", "a", "s", "o", "n">>
S_usage == <<"u", "s", "a", "g", "e">>
S_prompt_tokens == <<"p", "r", "o", "m", "p", "t", "_", "t", "o", "k", "e", "n", "s">>
S_completion_tokens == <<"c", "o", "m", "p", "l", "e", "t", "i", "o", "n", "_", "t", "o", "k", "e", "n", "s">>
S_total_tokens == <<"t", "o", "t", "a", "l", "_", "t", "o", "k", "e", "n", "s">>
S_chat_completion == <<"c", "h", "a", "t", ".", "c", "o", "m", "p", "l", "e", "t", "i", "o", "n">>
S_assistant == <<"a", "s", "s", "i", "s", "t", "a", "n", "t">>
S_stop == <<"s", "t", "o", "p">>
S_call_ == <<"c", "a", "l", "l", "_">>
S_unknown == <<"u", "n", "k", "n", "o", "w", "n">>
S_default == <<"d", "e", "f", "a", "u", "l", "t">>
S_gpt == <<"g", "p", "t", "-", "3", ".", "5", "-", "t", "u", "r", "b", "o">>
S_user == <<"u", "s", "e", "r">>
S_arguments == <<"a", "r", "g", "u", "m", "e", "n", "t", "s">>
S_status == <<"s", "t", "a", "t", "u", "s">>
S_registered_but_no_handler ==
    <<"r", "e", "g", "i", "s", "t", "e", "r", "e", "d", "_", "b", "u", "t", "_",
      "n", "o", "_", "h", "a", "n", "d", "l", "e", "r">>
S_detail == <<"d", "e", "t", "a", "i", "l">>
S_done == <<"d", "o", "n", "e">>
X_tools_open == <<"<", "t", "o", "o", "l", "s", ">">>
X_tools_close == <<"<", "/", "t", "o", "o", "l", "s", ">">>
X_tool_open == <<"<", "t", "o", "o", "l", " ", "n", "a", "m", "e", "=", "'">>
X_tool_open_end == <<"'", ">">>
X_description_open == <<"<", "d", "e", "s", "c", "r", "i", "p", "t", "i", "o", "n", ">">>
X_description_close == <<"<", "/", "d", "e", "s", "c", "r", "i", "p", "t", "i", "o", "n", ">">>
X_parameters_open == <<"<", "p", "a", "r", "a", "m", "e", "t", "e", "r", "s", ">">>
X_parameters_close == <<"<", "/", "p", "a", "r", "a", "m", "e", "t", "e", "r", "s", ">">>
X_tool_close == <<"<", "/", "t", "o", "o", "l", ">">>
RE_name == <<"\"", "n", "a", "m", "e", "\"">>

(***************************************************************************)
(* Python values.                                                          *)
(***************************************************************************)
None == [t |-> "none", v |-> <<>>]
PyStr(s) == [t |-> "str", v |-> s]
PyInt(n) == [t |-> "int", v |-> n]
PyFloat(lexeme) == [t |-> "float", v |-> lexeme]
PyBool(b) == [t |-> "bool", v |-> b]
PyList(xs) == [t |-> "list", v |-> xs]
PyDict(kvs) == [t |-> "dict", v |-> kvs]

\* bool(x) for the value kinds of the model
Truthy(x) ==
    CASE x.t = "none" -> FALSE
      [] x.t = "bool" -> x.v
      [] x.t = "int" -> x.v # 0
      [] x.t = "float" -> TRUE
      [] OTHER -> Len(x.v) > 0

\* k in d
HasKey(d, k) == \E i \in 1..Len(d.v) : d.v[i][1] = k

\* d.get(k, dflt)
DictGet(d, k, dflt) ==
    IF HasKey(d, k)
    THEN d.v[CHOOSE i \in 1..Len(d.v) : d.v[i][1] = k][2]
    ELSE dflt

\* d[k] = x on an insertion-ordered dict: an existing key keeps its place
DictSet(kvs, k, x) ==
    IF \E i \in 1..Len(kvs) : kvs[i][1] = k
    THEN [i \in 1..Len(kvs) |-> IF kvs[i][1] = k THEN <<k, x>> ELSE kvs[i]]
    ELSE Append(kvs, <<k, x>>)

\* an exception object
Exc(type, msg) == [type |-> type, msg |-> msg]
NoExc == Exc("none", "")

\* outcome of a Python call: a returned value or a raised exception
Return(x) == [kind |-> "return", value |-> x, exc |-> NoExc]
Raise(e) == [kind |-> "raise", value |-> None, exc |-> e]

(***************************************************************************)
(* Character-level helpers.                                                *)
(***************************************************************************)
Digits == <<"0", "1", "2", "3", "4", "5", "6", "7", "8", "9">>
IsDigit(c) == \E d \in 1..10 : Digits[d] = c
DigitVal(c) == (CHOOSE d \in 1..10 : Digits[d] = c) - 1
IsWs(c) == c \in {" ", "\t", "\n", "\r"}

\* s[i:i+len(pat)] == pat
StartsAt(s, i, pat) ==
    /\ i >= 1
    /\ i + Len(pat) - 1 <= Len(s)
    /\ SubSeq(s, i, i + Len(pat) - 1) = pat

RECURSIVE SkipWs(_, _)
SkipWs(s, i) == IF i <= Len(s) /\ IsWs(s[i]) THEN SkipWs(s, i + 1) ELSE i

RECURSIVE SkipDigits(_, _)
SkipDigits(s, i) == IF i <= Len(s) /\ IsDigit(s[i]) THEN SkipDigits(s, i + 1) ELSE i

RECURSIVE DigitsToInt(_, _)
DigitsToInt(ds, acc) ==
    IF ds = <<>> THEN acc ELSE DigitsToInt(Tail(ds), 10 * acc + DigitVal(Head(ds)))

RECURSIVE NatToStr(_)
NatToStr(n) ==
    IF n < 10 THEN <<Digits[n + 1]>> ELSE NatToStr(n \div 10) \o <<Digits[(n % 10) + 1]>>

IntToStr(n) == IF n < 0 THEN <<"-">> \o NatToStr(0 - n) ELSE NatToStr(n)

RECURSIVE Concat(_)
Concat(parts) == IF parts = <<>> THEN <<>> ELSE Head(parts) \o Concat(Tail(parts))

(***************************************************************************)
(* json.dumps with the default separators (", " and ": ").  Floats never   *)
(* reach it in this program (tool schemas hold strings, ints and objects). *)
(***************************************************************************)
EscapeChar(c) ==
    CASE c = "\"" -> <<"\\", "\"">>
      [] c = "\\" -> <<"\\", "\\">>
      [] c = "\n" -> <<"\\", "n">>
      [] c = "\r" -> <<"\\", "r">>
      [] c = "\t" -> <<"\\", "t">>
      [] OTHER -> <<c>>

RECURSIVE EscapeStr(_)
EscapeStr(s) == IF s = <<>> THEN <<>> ELSE EscapeChar(Head(s)) \o EscapeStr(Tail(s))

QuoteStr(s) == <<"\"">> \o EscapeStr(s) \o <<"\"">>

RECURSIVE json_dumps(_)
RECURSIVE DumpItems(_)
RECURSIVE DumpPairs(_)
DumpItems(xs) ==
    IF xs = <<>> THEN <<>>
    ELSE IF Len(xs) = 1 THEN json_dumps(xs[1])
    ELSE json_dumps(xs[1]) \o <<",", " ">> \o DumpItems(Tail(xs))
DumpPairs(kvs) ==
    IF kvs = <<>> THEN <<>>
    ELSE IF Len(kvs) = 1 THEN QuoteStr(kvs[1][1]) \o <<":", " ">> \o json_dumps(kvs[1][2])
    ELSE QuoteStr(kvs[1][1]) \o <<":", " ">> \o json_dumps(kvs[1][2])
             \o <<",", " ">> \o DumpPairs(Tail(kvs))
json_dumps(x) ==
    CASE x.t = "none" -> S_null
      [] x.t = "bool" -> IF x.v THEN S_true ELSE S_false
      [] x.t = "int" -> IntToStr(x.v)
      [] x.t = "str" -> QuoteStr(x.v)
      [] x.t = "list" -> <<"[">> \o DumpItems(x.v) \o <<"]">>
      [] x.t = "dict" -> <<"{">> \o DumpPairs(x.v) \o <<"}">>

(***************************************************************************)
(* json.loads (strict mode): a recursive-descent scanner returning          *)
(* [ok, val, end], end being the position after the value.  \u escapes and *)
(* the NaN/Infinity literals are outside the alphabet of the model.        *)
(***************************************************************************)
Parsed(x, j) == [ok |-> TRUE, val |-> x, end |-> j]
ParseError == [ok |-> FALSE, val |-> None, end |-> 0]

UnescapeChar(c) ==
    CASE c = "n" -> "\n"
      [] c = "r" -> "\r"
      [] c = "t" -> "\t"
      [] OTHER -> c

\* py_scanstring: i is the position after the opening quote
RECURSIVE ScanString(_, _, _)
ScanString(s, i, acc) ==
    IF i > Len(s) THEN ParseError
    ELSE IF s[i] = "\"" THEN Parsed(acc, i + 1)
    ELSE IF s[i] = "\\"
         THEN IF i + 1 <= Len(s) /\ s[i + 1] \in {"\"", "\\", "/", "n", "r", "t"}
              THEN ScanString(s, i + 2, Append(acc, UnescapeChar(s[i + 1])))
              ELSE ParseError
    ELSE IF s[i] \in {"\n", "\r", "\t"} THEN ParseError
    ELSE ScanString(s, i + 1, Append(acc, s[i]))

\* NUMBER_RE: (-?(?:0|[1-9][0-9]*))(\.[0-9]+)?([eE][-+]?[0-9]+)?
\* start of the digits, after an optional sign
NumSign(s, i) == IF i <= Len(s) /\ s[i] = "-" THEN i + 1 ELSE i
\* end of the integer part that starts at d0 (d0 itself when there is none)
NumInt(s, d0) == IF d0 <= Len(s) /\ s[d0] = "0" THEN d0 + 1 ELSE SkipDigits(s, d0)
\* end of the optional fraction that starts at d1
NumFrac(s, d1) ==
    IF d1 + 1 <= Len(s) /\ s[d1] = "." /\ IsDigit(s[d1 + 1])
    THEN SkipDigits(s, d1 + 1) ELSE d1
\* end of the optional exponent that starts at f0
NumExpDigits(s, f0, x0) == IF x0 <= Len(s) /\ IsDigit(s[x0]) THEN SkipDigits(s, x0) ELSE f0
NumExp(s, f0) ==
    IF f0 <= Len(s) /\ s[f0] \in {"e", "E"}
    THEN NumExpDigits(s, f0,
             IF f0 + 1 <= Len(s) /\ s[f0 + 1] \in {"-", "+"} THEN f0 + 2 ELSE f0 + 1)
    ELSE f0
NumValue(s, i, d0, d1, e1) ==
    IF d1 = d0 THEN ParseError
    ELSE IF e1 = d1
         THEN Parsed(PyInt(IF d0 > i THEN 0 - DigitsToInt(SubSeq(s, d0, d1 - 1), 0)
                                     ELSE DigitsToInt(SubSeq(s, d0, d1 - 1), 0)), d1)
         ELSE Parsed(PyFloat(SubSeq(s, i, e1 - 1)), e1)
NumFrom(s, i, d0, d1) == NumValue(s, i, d0, d1, NumExp(s, NumFrac(s, d1)))
NumAfterSign(s, i, d0) == NumFrom(s, i, d0, NumInt(s, d0))
ScanNumber(s, i) == NumAfterSign(s, i, NumSign(s, i))

RECURSIVE ScanOnce(_, _)
RECURSIVE ScanPairs(_, _, _)
RECURSIVE ScanItems(_, _, _)
\* JSONObject: after a value, "}" ends the object and "," introduces a key
PairsNext(s, n, acc) ==
    IF n > Len(s) THEN ParseError
    ELSE IF s[n] = "}" THEN Parsed(PyDict(acc), n + 1)
    ELSE IF s[n] = "," THEN ScanPairs(s, SkipWs(s, n + 1), acc)
    ELSE ParseError
PairValue(s, key, x, acc) ==
    IF ~x.ok THEN ParseError
    ELSE PairsNext(s, SkipWs(s, x.end), DictSet(acc, key, x.val))
PairColon(s, key, c, acc) ==
    IF ~(c <= Len(s) /\ s[c] = ":") THEN ParseError
    ELSE PairValue(s, key, ScanOnce(s, SkipWs(s, c + 1)), acc)
PairKey(s, k, acc) ==
    IF ~k.ok THEN ParseError
    ELSE PairColon(s, k.val, SkipWs(s, k.end), acc)
\* JSONObject loop: i is the position of the opening quote of the next key
ScanPairs(s, i, acc) ==
    IF ~(i <= Len(s) /\ s[i] = "\"") THEN ParseError
    ELSE PairKey(s, ScanString(s, i + 1, <<>>), acc)

\* JSONArray: after an item, "]" ends the array and "," introduces an item
ItemsNext(s, n, acc) ==
    IF n > Len(s) THEN ParseError
    ELSE IF s[n] = "]" THEN Parsed(PyList(acc), n + 1)
    ELSE IF s[n] = "," THEN ScanItems(s, SkipWs(s, n + 1), acc)
    ELSE ParseError
ItemValue(s, x, acc) ==
    IF ~x.ok THEN ParseError
    ELSE ItemsNext(s, SkipWs(s, x.end), Append(acc, x.val))
\* JSONArray loop: i is the position of the next item
ScanItems(s, i, acc) == ItemValue(s, ScanOnce(s, i), acc)

StrValue(r) == IF r.ok THEN Parsed(PyStr(r.val), r.end) ELSE ParseError
ObjectFrom(s, n) ==
    IF n <= Len(s) /\ s[n] = "}" THEN Parsed(PyDict(<<>>), n + 1)
    ELSE ScanPairs(s, n, <<>>)
ArrayFrom(s, n) ==
    IF n <= Len(s) /\ s[n] = "]" THEN Parsed(PyList(<<>>), n + 1)
    ELSE ScanItems(s, n, <<>>)
\* scanner.scan_once
ScanOnce(s, i) ==
    IF i > Len(s) THEN ParseError
    ELSE IF s[i] = "\"" THEN StrValue(ScanString(s, i + 1, <<>>))
    ELSE IF s[i] = "{" THEN ObjectFrom(s, SkipWs(s, i + 1))
    ELSE IF s[i] = "[" THEN ArrayFrom(s, SkipWs(s, i + 1))
    ELSE IF StartsAt(s, i, S_null) THEN Parsed(None, i + Len(S_null))
    ELSE IF StartsAt(s, i, S_true) THEN Parsed(PyBool(TRUE), i + Len(S_true))
    ELSE IF StartsAt(s, i, S_false) THEN Parsed(PyBool(FALSE), i + Len(S_false))
    ELSE ScanNumber(s, i)

\* JSONDecoder.decode: the value, or JSONDecodeError (also on trailing data)
Decoded(s, r) ==
    IF r.ok /\ SkipWs(s, r.end) = Len(s) + 1 THEN Return(r.val)
    ELSE Raise(Exc("JSONDecodeError", ""))
json_loads(s) == Decoded(s, ScanOnce(s, SkipWs(s, 1)))

(***************************************************************************)
(* engine.py: function-call extraction.                                    *)
(***************************************************************************)
NoMatch == <<>>

\* position of the first "}" at or after i, 0 when there is none
RECURSIVE FirstClose(_, _)
FirstClose(s, i) ==
    IF i > Len(s) THEN 0
    ELSE IF s[i] = "}" THEN i
    ELSE FirstClose(s, i + 1)

\* the pattern \{[^}]*"name"[^}]*\} anchored at i: the end of the match, or 0.
\* Every character between the braces is a non-"}" character, so the match
\* can only end at the first "}" after i.
MatchEnd(s, i, j) ==
    IF j # 0 /\ (\E k \in (i + 1)..(j - Len(RE_name)) : StartsAt(s, k, RE_name))
    THEN j ELSE 0
MatchAt(s, i) == IF s[i] # "{" THEN 0 ELSE MatchEnd(s, i, FirstClose(s, i + 1))

\* re.search: the match at the leftmost position where the pattern matches
RECURSIVE SearchFrom(_, _)
SearchAt(s, i, j) == IF j # 0 THEN <<i, j>> ELSE SearchFrom(s, i + 1)
SearchFrom(s, i) == IF i > Len(s) THEN NoMatch ELSE SearchAt(s, i, MatchAt(s, i))

re_search(text) == SearchFrom(text, 1)

\* json_match.group()
group(text, m) == SubSeq(text, m[1], m[2])

\* variant: no except clause around json.loads
try_loads_uncaught(r) == r

\* lines 231-234: try: return json.loads(...) / except: pass
try_loads(r) == IF r.kind = "return" THEN r ELSE Return(None)

\* variant: when a match does not parse, the search resumes after its first
\* character and the next match is tried
RECURSIVE extract_from_retry(_, _)
extract_from_retry(text, json_match) ==
    IF json_match = NoMatch THEN Return(None)
    ELSE IF json_loads(group(text, json_match)).kind = "return"
         THEN json_loads(group(text, json_match))
         ELSE extract_from_retry(text, SearchFrom(text, json_match[1] + 1))

\* lines 230-236
extract_from(text, json_match) ==
    IF json_match # NoMatch
    THEN try_loads(json_loads(group(text, json_match)))
    ELSE Return(None)

extract_function_call(text) == extract_from(text, re_search(text))

(***************************************************************************)
(* engine.py: response normalizer.                                         *)
(***************************************************************************)
\* str.join over the characters: the TLA+ string spelled by a char sequence
RECURSIVE Spell(_)
Spell(s) == IF s = <<>> THEN "" ELSE Head(s) \o Spell(Tail(s))

\* hash(text) rendered in the f-string: an opaque function of the text, kept
\* as one symbolic lexeme (CPython salts str hashes per process)
py_hash(text) == <<"hash(" \o Spell(text) \o ")">>

\* config.get(key, dflt) on a configuration (a function from field names)
cfg_get(config, key, dflt) == IF key \in DOMAIN config THEN config[key] ELSE dflt

\* variant: a reply that also has the flat text is not passed through
is_openai_shape_strict(response) ==
    HasKey(response, S_choices) /\ ~HasKey(response, S_response)

\* line 188: the reply is already in the OpenAI shape
is_openai_shape(response) == HasKey(response, S_choices)

\* variant: finish_reason is always "stop"
finish_reason_stop(fc) == PyStr(S_stop)

\* line 207: "function_call" if extract_function_call(...) else "stop"
finish_reason_for(fc) == IF Truthy(fc) THEN PyStr(S_function_call) ELSE PyStr(S_stop)

\* lines 195-214: the synthesized response; fc and fc2 are the outcomes of the
\* two calls of extract_function_call (lines 205 and 207)
synthesize(response, config, text, fc, fc2) ==
    IF fc.kind = "raise" THEN fc
    ELSE IF fc2.kind = "raise" THEN fc2
    ELSE Return(PyDict(<<
        <<S_id, PyStr(S_call_ \o py_hash(text.v))>>,
        <<S_object, PyStr(S_chat_completion)>>,
        <<S_created, DictGet(response, S_created_at, PyInt(0))>>,
        <<S_model, PyStr(cfg_get(config, "model_name", S_unknown))>>,
        <<S_choices, PyList(<<PyDict(<<
            <<S_index, PyInt(0)>>,
            <<S_message, PyDict(<<
                <<S_role, PyStr(S_assistant)>>,
                <<S_content, text>>,
                <<S_function_call, fc.value>> >>)>>,
            <<S_finish_reason, finish_reason_for(fc2.value)>> >>)>>)>>,
        <<S_usage, PyDict(<<
            <<S_prompt_tokens, PyInt(0)>>,
            <<S_completion_tokens, PyInt(0)>>,
            <<S_total_tokens, PyInt(0)>> >>)>> >>))

\* response.get("response", ""), evaluated where the source evaluates it
flat_text(response) == DictGet(response, S_response, PyStr(<<>>))

parse_function_call_response(response, config) ==
    IF is_openai_shape(response) THEN Return(response)
    ELSE IF HasKey(response, S_response)
    THEN synthesize(response, config, flat_text(response),
                    extract_function_call(flat_text(response).v),
                    extract_function_call(flat_text(response).v))
    ELSE Return(response)

(***************************************************************************)
(* formatting.py: tool formatter.                                          *)
(***************************************************************************)
\* one iteration of the loop of json_tools_to_xml: the parts appended for a tool
tool_xml_parts(tool) ==
    LET func == DictGet(tool, S_function, PyDict(<<>>))
        name == DictGet(func, S_name, PyStr(<<>>))
        description == DictGet(func, S_description, PyStr(<<>>))
        parameters == DictGet(func, S_parameters, PyDict(<<>>))
    IN  <<X_tool_open \o name.v \o X_tool_open_end,
          X_description_open \o description.v \o X_description_close>>
        \o (IF Truthy(parameters)
            THEN <<X_parameters_open, json_dumps(parameters), X_parameters_close>>
            ELSE <<>>)
        \o <<X_tool_close>>

RECURSIVE tools_xml_parts(_)
tools_xml_parts(tools) ==
    IF tools = <<>> THEN <<>>
    ELSE tool_xml_parts(Head(tools)) \o tools_xml_parts(Tail(tools))

\* tools: a Python list of tool dicts; the result is a Python str
json_tools_to_xml(tools) ==
    PyStr(Concat(<<X_tools_open>> \o tools_xml_parts(tools.v) \o <<X_tools_close>>))

\* variant: the default branch wraps the list like the function_calling branch
format_tools_for_model_wrap(tools, format_type) ==
    IF format_type = "xml" THEN json_tools_to_xml(tools)
    ELSE PyDict(<< <<S_tools, tools>> >>)

format_tools_for_model(tools, format_type) ==
    IF format_type = "xml" THEN json_tools_to_xml(tools)
    ELSE IF format_type = "function_calling" THEN PyDict(<< <<S_tools, tools>> >>)
    ELSE tools

\* returns [] for every input (the parser is a TODO in the source)
xml_tools_to_json(xml_string) == Return(PyList(<<>>))

(***************************************************************************)
(* engine.py: configuration, dispatch router and backend adapters.         *)
(***************************************************************************)
S_prompt == <<"p", "r", "o", "m", "p", "t">>
S_stream == <<"s", "t", "r", "e", "a", "m">>
S_options == <<"o", "p", "t", "i", "o", "n", "s">>
S_temperature == <<"t", "e", "m", "p", "e", "r", "a", "t", "u", "r", "e">>
S_num_predict == <<"n", "u", "m", "_", "p", "r", "e", "d", "i", "c", "t">>
S_context == <<"c", "o", "n", "t", "e", "x", "t">>
S_raw == <<"r", "a", "w">>
S_messages == <<"m", "e", "s", "s", "a", "g", "e", "s">>
S_max_tokens == <<"m", "a", "x", "_", "t", "o", "k", "e", "n", "s">>

\* os.getenv(name, dflt) on the process environment (a function from names)
getenv(environ, name, dflt) == IF name \in DOMAIN environ THEN environ[name] ELSE dflt

\* str.lower on the letters that occur in the values of USE_RAW_MODE
UpperCase == <<"T", "R", "U", "E", "F", "A", "L", "S">>
LowerCase == <<"t", "r", "u", "e", "f", "a", "l", "s">>
LowerChar(c) ==
    IF \E i \in 1..Len(UpperCase) : UpperCase[i] = c
    THEN LowerCase[CHOOSE i \in 1..Len(UpperCase) : UpperCase[i] = c]
    ELSE c
lower(s) == [i \in 1..Len(s) |-> LowerChar(s[i])]

get_default_config(environ) ==
    [backend |-> getenv(environ, "MODEL_BACKEND", "ollama"),
     model_name |-> getenv(environ, "MODEL_NAME", S_default),
     base_url |-> getenv(environ, "MODEL_BASE_URL", "http://localhost:11434"),
     tool_format |-> getenv(environ, "TOOL_FORMAT", "json"),
     use_raw_mode |-> (lower(getenv(environ, "USE_RAW_MODE", S_false)) = S_true)]

\* isinstance(x, str), isinstance(x, list)
IsStr(x) == x.t = "str"
IsList(x) == x.t = "list"

\* variant: tools always go to the context field
ollama_add_tools_context(payload, prompt, tools) ==
    IF Truthy(tools)
    THEN DictSet(payload, S_context, PyStr(json_dumps(tools)))
    ELSE payload

\* lines 81-87: "Add tools if provided"
ollama_add_tools(payload, prompt, tools) ==
    IF Truthy(tools)
    THEN IF IsStr(tools)
         THEN DictSet(payload, S_prompt, PyStr(prompt \o <<"\n", "\n">> \o tools.v))
         ELSE DictSet(payload, S_context, PyStr(json_dumps(tools)))
    ELSE payload

\* lines 64-90: the request call_ollama sends
call_ollama_request(prompt, tools, config, temperature, max_tokens) ==
    LET base_url == cfg_get(config, "base_url", "http://localhost:11434")
        model_name == cfg_get(config, "model_name", S_default)
        use_raw == cfg_get(config, "use_raw_mode", FALSE)
        payload0 == <<
            <<S_model, PyStr(model_name)>>,
            <<S_prompt, PyStr(prompt)>>,
            <<S_stream, PyBool(FALSE)>>,
            <<S_options, PyDict(<< <<S_temperature, temperature>>,
                                   <<S_num_predict, max_tokens>> >>)>> >>
        payload1 == ollama_add_tools(payload0, prompt, tools)
        payload2 == IF use_raw THEN DictSet(payload1, S_raw, PyBool(TRUE)) ELSE payload1
    IN  [adapter |-> "ollama",
         url |-> base_url \o "/api/generate",
         json |-> PyDict(payload2),
         headers |-> <<>>,
         timeout |-> 30]

\* variant: the tools value is attached as it is
tools_as_given(tools) == tools

\* lines 128 and 169: tools if isinstance(tools, list) else [tools]
tools_as_list(tools) == IF IsList(tools) THEN tools ELSE PyList(<<tools>>)

\* lines 113-128: the request call_vllm sends
call_vllm_request(prompt, tools, config, temperature, max_tokens) ==
    LET base_url == cfg_get(config, "base_url", "http://localhost:8000")
        model_name == cfg_get(config, "model_name", S_default)
        messages == PyList(<<PyDict(<< <<S_role, PyStr(S_user)>>,
                                       <<S_content, PyStr(prompt)>> >>)>>)
        payload0 == <<
            <<S_model, PyStr(model_name)>>,
            <<S_messages, messages>>,
            <<S_temperature, temperature>>,
            <<S_max_tokens, max_tokens>> >>
        payload1 ==
            IF Truthy(tools)
            THEN DictSet(payload0, S_tools, tools_as_list(tools))
            ELSE payload0
    IN  [adapter |-> "vllm",
         url |-> base_url \o "/v1/chat/completions",
         json |-> PyDict(payload1),
         headers |-> <<>>,
         timeout |-> 30]

\* lines 148-169: the request call_openai_compatible sends
call_openai_compatible_request(prompt, tools, config, temperature, max_tokens, environ) ==
    LET base_url == cfg_get(config, "base_url", "https://api.openai.com/v1")
        model_name == cfg_get(config, "model_name", S_gpt)
        api_key == cfg_get(config, "api_key", getenv(environ, "OPENAI_API_KEY", "None"))
        messages == PyList(<<PyDict(<< <<S_role, PyStr(S_user)>>,
                                       <<S_content, PyStr(prompt)>> >>)>>)
        payload0 == <<
            <<S_model, PyStr(model_name)>>,
            <<S_messages, messages>>,
            <<S_temperature, temperature>>,
            <<S_max_tokens, max_tokens>> >>
        payload1 ==
            IF Truthy(tools)
            THEN DictSet(payload0, S_tools, tools_as_list(tools))
            ELSE payload0
    IN  [adapter |-> "openai",
         url |-> base_url \o "/chat/completions",
         json |-> PyDict(payload1),
         headers |-> << <<"Authorization", "Bearer " \o api_key>>,
                        <<"Content-Type", "application/json">> >>,
         timeout |-> 30]

\* variant: an unknown backend falls back to the default adapter
dispatch_fallback(backend) ==
    IF backend = "vllm" THEN "vllm"
    ELSE IF backend = "openai" THEN "openai"
    ELSE "ollama"

\* variant: the two chat-completion branches are exchanged
dispatch_exchanged(backend) ==
    IF backend = "ollama" THEN "ollama"
    ELSE IF backend = "vllm" THEN "openai"
    ELSE IF backend = "openai" THEN "vllm"
    ELSE "unsupported"

\* lines 46-53: the branch call_model takes for a backend value
dispatch(backend) ==
    IF backend = "ollama" THEN "ollama"
    ELSE IF backend = "vllm" THEN "vllm"
    ELSE IF backend = "openai" THEN "openai"
    ELSE "unsupported"

\* variant: the except clause logs the error and returns an empty response
adapter_except_swallow(e) == Return(PyDict(<<>>))

\* the except clause of each adapter: log the error and re-raise it
adapter_except(e) == Raise(e)

\* line 98 inside the try block: an exception of the normalizer is caught too
ollama_parsed(r) == IF r.kind = "raise" THEN adapter_except(r.exc) ELSE r

\* the try block of an adapter, given what httpx does with the request:
\* http.post is the exception httpx.post raises (NoExc when it returns),
\* http.status_ok tells whether raise_for_status passes, and http.json is
\* the outcome of response.json()
adapter_try(adapter, http, config) ==
    IF http.post # NoExc THEN adapter_except(http.post)
    ELSE IF ~http.status_ok THEN adapter_except(Exc("HTTPStatusError", ""))
    ELSE IF http.json.kind = "raise" THEN adapter_except(http.json.exc)
    ELSE IF adapter = "ollama"
         THEN ollama_parsed(parse_function_call_response(http.json.value, config))
         ELSE Return(http.json.value)

\* the exception the try block catches, NoExc when the request succeeds
http_fault(http) ==
    IF http.post # NoExc THEN http.post
    ELSE IF ~http.status_ok THEN Exc("HTTPStatusError", "")
    ELSE http.json.exc

(***************************************************************************)
(* server.py: the prompt and the configuration of the front door.          *)
(***************************************************************************)
\* a ChatMessage (lines 39-41)
ChatMessage(role, content) == [role |-> role, content |-> content]

\* line 146: f"{msg.role}: {msg.content}"
prompt_part(msg) == msg.role \o <<":", " ">> \o msg.content

\* sep.join(parts)
RECURSIVE join(_, _)
join(sep, parts) ==
    IF parts = <<>> THEN <<>>
    ELSE IF Len(parts) = 1 THEN parts[1]
    ELSE parts[1] \o sep \o join(sep, Tail(parts))

\* lines 142-147
build_prompt_from_messages(messages) ==
    join(<<"\n">>, [i \in 1..Len(messages) |-> prompt_part(messages[i])])

\* lines 125-139; model_name is None or a str
get_model_config(model_name, environ) ==
    [backend |-> getenv(environ, "MODEL_BACKEND", "ollama"),
     model_name |-> IF Truthy(model_name) THEN model_name.v
                    ELSE getenv(environ, "MODEL_NAME", S_default),
     base_url |-> getenv(environ, "MODEL_BASE_URL", "http://localhost:11434"),
     tool_format |-> getenv(environ, "TOOL_FORMAT", "json"),
     use_raw_mode |-> (lower(getenv(environ, "USE_RAW_MODE", S_false)) = S_true)]

\* formatting.py lines 50-52 under line 104: func = tool.get("function", {})
\* followed by func.get(...) raises AttributeError when func is not a dict
format_tools_raises(tools, format_type) ==
    /\ format_type = "xml"
    /\ \E i \in 1..Len(tools.v) :
           DictGet(tools.v[i], S_function, PyDict(<<>>)).t # "dict"

\* lines 101-104: formatted_tools, or the exception the formatter raises
formatted_tools_for(tools, format_type) ==
    IF ~Truthy(tools) THEN Return(None)
    ELSE IF format_tools_raises(tools, format_type)
    THEN Raise(Exc("AttributeError", "object has no attribute 'get'"))
    ELSE Return(format_tools_for_model(tools, format_type))

\* variant: the except clause answers 200 with the error in the body
handler_result_ok(result) ==
    IF result.kind = "raise"
    THEN [status |-> 200, body |-> PyDict(<< <<S_detail, PyStr(<<result.exc.msg>>)>> >>)]
    ELSE [status |-> 200, body |-> result.value]

\* lines 118-122: return response (FastAPI answers 200 with it), or
\* except Exception: raise HTTPException(status_code=500, detail=str(e))
handler_result(result) ==
    IF result.kind = "raise"
    THEN [status |-> 500, body |-> PyDict(<< <<S_detail, PyStr(<<result.exc.msg>>)>> >>)]
    ELSE [status |-> 200, body |-> result.value]

(***************************************************************************)
(* Input sets.                                                             *)
(***************************************************************************)
SeqsUpTo(S, n) == UNION {[1..k -> S] : k \in 0..n}

\* reply texts: concatenations of at most MaxFrags fragments
Frags == { <<"{">>, <<"}">>, RE_name, <<":", "1">>, <<"x">>,
           <<"{">> \o RE_name \o <<":", "1", "}">> }
Texts == {Concat(fs) : fs \in SeqsUpTo(Frags, MaxFrags)}

\* tool schemas in the canonical structured form
MkTool(name, description, parameters) ==
    PyDict(<< <<S_type, PyStr(S_function)>>,
              <<S_function, PyDict(<< <<S_name, PyStr(name)>>,
                                      <<S_description, PyStr(description)>> >>
                                   \o parameters)>> >>)
ParamChoices == { <<>>,
                  << <<S_parameters, PyDict(<<>>)>> >>,
                  << <<S_parameters, PyDict(<< <<<<"x">>, PyInt(1)>> >>)>> >> }
ToolNames == { <<"a">>, <<"a", "'", "b">> }
ToolDescriptions == { <<"d">>, <<"a", "<", "b">> }
Tools == {MkTool(n, d, p) : n \in ToolNames, d \in ToolDescriptions, p \in ParamChoices}
ToolLists == {PyList(ts) : ts \in SeqsUpTo(Tools, MaxTools)}
FormatTypes == {"json", "xml", "function_calling", "yaml"}

\* raw backend replies for the normalizer
ChoicesValue == PyList(<<PyDict(<< <<S_index, PyInt(0)>> >>)>>)
SomeTexts == { <<>>, <<"h", "i">>, <<"{">> \o RE_name \o <<":", "1", "}">> }
RawResponses ==
    {PyDict(<< <<S_response, PyStr(x)>> >>) : x \in Texts}
    \cup {PyDict(<< <<S_response, PyStr(x)>>, <<S_created_at, PyInt(5)>> >>) : x \in Texts}
    \cup {PyDict(<< <<S_choices, ChoicesValue>>, <<S_response, PyStr(x)>> >>) : x \in SomeTexts}
    \cup {PyDict(<< <<S_response, PyStr(x)>>, <<S_choices, PyList(<<>>)>> >>) : x \in SomeTexts}
    \cup { PyDict(<< <<S_choices, ChoicesValue>> >>),
           PyDict(<< <<S_choices, ChoicesValue>>, <<S_created_at, PyInt(5)>> >>),
           PyDict(<<>>),
           PyDict(<< <<S_done, PyBool(TRUE)>> >>),
           PyDict(<< <<S_created_at, PyInt(5)>> >>) }
NormConfigs == { <<>>, [model_name |-> <<"m">>] }
XmlStrings == {json_tools_to_xml(PyList(ts)).v : ts \in SeqsUpTo(Tools, 1)}
                  \cup { <<>>, <<"x">> }

\* arguments of call_model
EngineTools == { MkTool(<<"a">>, <<"d">>, <<>>),
                 MkTool(<<"b">>, <<"d">>, << <<S_parameters, PyDict(<< <<<<"x">>, PyInt(1)>> >>)>> >>) }
EngineToolLists == {PyList(ts) : ts \in SeqsUpTo(EngineTools, MaxTools)}
FormattedTools ==
    {format_tools_for_model(tl, f) : tl \in EngineToolLists \ {PyList(<<>>)},
                                     f \in {"json", "xml", "function_calling"}}
    \cup EngineTools
    \cup { None, PyStr(<<>>), PyList(<<>>), PyDict(<< <<S_tools, PyList(<<>>)>> >>) }
Prompts == { <<>>, <<"u", "s", "e", "r", ":", " ", "h", "i">> }
Sampling == { <<PyFloat(<<"0", ".", "7">>), PyInt(1000)>>, <<PyInt(0), PyInt(1)>> }
BackendNames == {"ollama", "vllm", "openai", "unknown-xyz"}
ConfigRest == { <<>>,
                [base_url |-> "http://h", model_name |-> <<"m">>, use_raw_mode |-> TRUE],
                [model_name |-> <<"m">>, api_key |-> "k", use_raw_mode |-> FALSE] }
ModelConfigs ==
    { <<>> }                                                     \* model_config = None
    \cup { <<r>> : r \in ConfigRest }                            \* no "backend" key
    \cup { <<[backend |-> b] @@ r>> : b \in BackendNames, r \in ConfigRest }
Environs == { <<>>,
              [MODEL_BACKEND |-> "vllm", MODEL_NAME |-> <<"m">>, OPENAI_API_KEY |-> "e"],
              [MODEL_BACKEND |-> "unknown-xyz", USE_RAW_MODE |-> <<"T", "r", "u", "e">>] }
TransportErrors == { Exc("ConnectError", ""), Exc("ReadTimeout", "") }
Bodies ==
    {PyDict(<< <<S_response, PyStr(x)>>, <<S_created_at, PyInt(5)>> >>) :
        x \in SomeTexts \cup { <<"{">> \o RE_name \o <<"}">> }}
    \cup { PyDict(<< <<S_choices, ChoicesValue>> >>),
           PyDict(<< <<S_choices, ChoicesValue>>, <<S_response, PyStr(<<"h", "i">>)>> >>),
           PyDict(<< <<S_done, PyBool(TRUE)>> >>) }

\* messages of a chat-completion request
Roles == { <<>>, <<"u", "s", "e", "r">> }
Contents == { <<>>, <<"h", "i">>,
              <<"a", "\n", "s", "y", "s", "t", "e", "m", ":", " ", "b">> }
ChatMessages == {ChatMessage(r, c) : r \in Roles, c \in Contents}
MessageLists == SeqsUpTo(ChatMessages, MaxMessages)

\* chat-completion requests (lines 44-49) and what httpx can do with a request
BadTool == PyDict(<< <<S_function, PyStr(<<"f">>)>> >>)
RequestTools == {None, PyList(<<BadTool>>)} \cup EngineToolLists
RequestMessages == { <<>>,
                     <<ChatMessage(<<"u", "s", "e", "r">>, <<"h", "i">>)>>,
                     <<ChatMessage(<<"u", "s", "e", "r">>, <<"h", "i">>),
                       ChatMessage(<<>>, <<>>)>> }
RequestSampling == { <<PyFloat(<<"0", ".", "7">>), PyInt(1000)>>, <<None, None>> }
ChatCompletionRequests ==
    {[model |-> m, messages |-> ms, tools |-> ts, temperature |-> sp[1], max_tokens |-> sp[2]] :
        m \in {None, PyStr(<<"m">>)}, ms \in RequestMessages, ts \in RequestTools,
        sp \in RequestSampling}
ServerEnvirons ==
    {b @@ f : b \in { <<>>, [MODEL_BACKEND |-> "vllm"], [MODEL_BACKEND |-> "openai"],
                      [MODEL_BACKEND |-> "unknown-xyz"] },
              f \in { <<>>, [TOOL_FORMAT |-> "xml"], [TOOL_FORMAT |-> "function_calling"] }}
HttpOutcomes ==
    {[post |-> e, status_ok |-> FALSE, json |-> Return(None)] : e \in TransportErrors}
    \cup { [post |-> NoExc, status_ok |-> FALSE, json |-> Return(None)],
           [post |-> NoExc, status_ok |-> TRUE, json |-> Raise(Exc("JSONDecodeError", ""))] }
    \cup {[post |-> NoExc, status_ok |-> TRUE, json |-> Return(body)] : body \in Bodies}

(***************************************************************************)
(* State.                                                                  *)
(***************************************************************************)
VARIABLES
    pc,        \* "idle", "sent" (blocked in httpx.post) or "done"
    environ,   \* os.environ of the process
    args,      \* the arguments of the call_model invocation
    config,    \* model_config after line 42
    requests,  \* the outbound HTTP requests of the invocation, in order
    fault,     \* the exception caught by the adapter's except clause
    outcome,   \* what call_model returned or raised
    fn,        \* the pure function under test and
    arg,       \*   its argument(s),
    ret,       \*   its outcome once applied
    http_request,   \* the ChatCompletionRequest the front door is handling
    http_response,  \* the HTTP response of the front door
    frames,    \* the local variables of each concurrent call_model invocation
    functions, \* FunctionRegistry._functions
    handlers,  \* FunctionRegistry._handlers
    reg_log,   \* the register_function calls made so far, in order
    executed   \* the last execute_function call and its outcome

engine_vars == <<pc, environ, args, config, requests, fault, outcome>>
fn_vars == <<fn, arg, ret>>
srv_vars == <<http_request, http_response>>
conc_vars == <<frames>>
reg_vars == <<functions, handlers, reg_log, executed>>
vars == <<engine_vars, fn_vars, srv_vars, conc_vars, reg_vars>>

NotApplied == [kind |-> "pending", value |-> None, exc |-> NoExc]
NoArgs == [prompt |-> <<>>, tools |-> None, model_config |-> <<>>,
           temperature |-> None, max_tokens |-> None]

EngineIdle ==
    /\ pc = "idle"
    /\ args = NoArgs
    /\ config = <<>>
    /\ requests = <<>>
    /\ fault = NoExc
    /\ outcome = NotApplied

FnIdle ==
    /\ fn = "none"
    /\ arg = None
    /\ ret = NotApplied

NoRequest == <<>>
NoResponse == [status |-> 0, body |-> None]
ServerIdle ==
    /\ http_request = NoRequest
    /\ http_response = NoResponse

Invocations == {1, 2}
NoFrame == [pc |-> "idle", args |-> NoArgs, model_config |-> <<>>, request |-> <<>>,
            http |-> <<>>, outcome |-> NotApplied]
ConcIdle == frames = [i \in Invocations |-> NoFrame]

NoCall == <<>>
RegistryIdle ==
    /\ functions = <<>>
    /\ handlers = <<>>
    /\ reg_log = <<>>
    /\ executed = NoCall

(***************************************************************************)
(* call_model: one invocation, blocking once in httpx.post.                *)
(***************************************************************************)
Init ==
    /\ environ \in Environs
    /\ EngineIdle
    /\ FnIdle
    /\ ServerIdle
    /\ ConcIdle
    /\ RegistryIdle

\* lines 41-53, and the adapter up to its httpx.post
call_model(prompt, tools, model_config, temperature, max_tokens) ==
    /\ pc = "idle"
    /\ LET cfg == IF model_config = <<>> THEN get_default_config(environ)
                  ELSE model_config[1]
           backend == cfg_get(cfg, "backend", "ollama")
           branch == dispatch(backend)
       IN  /\ args' = [prompt |-> prompt, tools |-> tools, model_config |-> model_config,
                       temperature |-> temperature, max_tokens |-> max_tokens]
           /\ config' = cfg
           /\ IF branch = "unsupported"
              THEN /\ outcome' = Raise(Exc("ValueError", "Unsupported backend: " \o backend))
                   /\ pc' = "done"
                   /\ UNCHANGED requests
              ELSE /\ requests' = Append(requests,
                        CASE branch = "ollama" ->
                               call_ollama_request(prompt, tools, cfg, temperature, max_tokens)
                          [] branch = "vllm" ->
                               call_vllm_request(prompt, tools, cfg, temperature, max_tokens)
                          [] branch = "openai" ->
                               call_openai_compatible_request(prompt, tools, cfg, temperature,
                                                              max_tokens, environ))
                   /\ pc' = "sent"
                   /\ UNCHANGED outcome
    /\ UNCHANGED <<environ, fault, fn_vars, conc_vars, reg_vars>>

CallModel ==
    /\ \E prompt \in Prompts, tools \in FormattedTools, model_config \in ModelConfigs,
          sampling \in Sampling :
           call_model(prompt, tools, model_config, sampling[1], sampling[2])
    /\ UNCHANGED srv_vars

\* the rest of the adapter's try/except once httpx has acted on the request
adapter_finish(http) ==
    /\ pc = "sent"
    /\ fault' = http_fault(http)
    /\ outcome' = adapter_try(requests[Len(requests)].adapter, http, config)
    /\ pc' = "done"
    /\ UNCHANGED <<environ, args, config, requests, fn_vars, conc_vars, reg_vars>>

\* httpx.post raises (connection failure, timeout)
PostRaises ==
    /\ \E e \in TransportErrors :
           adapter_finish([post |-> e, status_ok |-> FALSE, json |-> Return(None)])
    /\ UNCHANGED srv_vars

\* the backend answers with a non-success status
StatusError ==
    /\ adapter_finish([post |-> NoExc, status_ok |-> FALSE, json |-> Return(None)])
    /\ UNCHANGED srv_vars

\* the backend answers 2xx with a body that is not JSON
BodyNotJson ==
    /\ adapter_finish([post |-> NoExc, status_ok |-> TRUE,
                       json |-> Raise(Exc("JSONDecodeError", ""))])
    /\ UNCHANGED srv_vars

\* the backend answers 2xx with a JSON body
Respond ==
    /\ \E body \in Bodies :
           adapter_finish([post |-> NoExc, status_ok |-> TRUE, json |-> Return(body)])
    /\ UNCHANGED srv_vars

Next ==
    \/ CallModel
    \/ PostRaises
    \/ StatusError
    \/ BodyNotJson
    \/ Respond

Spec == Init /\ [][Next]_vars

(***************************************************************************)
(* call_model: two invocations running concurrently.  Each has its own     *)
(* frame of local variables; os.environ is the state of the process.       *)
(***************************************************************************)
ConcArgs ==
    {[prompt |-> <<"h", "i">>, tools |-> ts, model_config |-> mc,
      temperature |-> PyInt(0), max_tokens |-> PyInt(1)] :
        ts \in {None, PyList(<<MkTool(<<"a">>, <<"d">>, <<>>)>>)},
        mc \in { <<>>,
                 <<[backend |-> "ollama", model_name |-> <<"m">>]>>,
                 <<[backend |-> "openai", base_url |-> "http://h"]>>,
                 <<[backend |-> "unknown-xyz"]>> }}
ConcHttp ==
    { [post |-> Exc("ReadTimeout", ""), status_ok |-> FALSE, json |-> Return(None)],
      [post |-> Exc("CancelledError", ""), status_ok |-> FALSE, json |-> Return(None)],
      [post |-> NoExc, status_ok |-> FALSE, json |-> Return(None)],
      [post |-> NoExc, status_ok |-> TRUE,
       json |-> Return(PyDict(<< <<S_response, PyStr(<<"h", "i">>)>> >>))],
      [post |-> NoExc, status_ok |-> TRUE,
       json |-> Return(PyDict(<< <<S_choices, ChoicesValue>> >>))] }

InitConc ==
    /\ environ \in Environs
    /\ EngineIdle
    /\ FnIdle
    /\ ServerIdle
    /\ ConcIdle
    /\ RegistryIdle

\* variant: model_config is a module-level name, shared by all invocations
assign_model_config_global(fr, i, value) ==
    [j \in DOMAIN fr |-> [fr[j] EXCEPT !.model_config = value]]

\* line 42: the assignment binds the local name of invocation i
assign_model_config(fr, i, value) == [fr EXCEPT ![i].model_config = value]

\* lines 15-21: a call binds its parameters in a new frame
call_model_enter(i, a) ==
    /\ frames[i].pc = "idle"
    /\ frames' = [frames EXCEPT ![i] = [NoFrame EXCEPT !.pc = "line41", !.args = a,
                                                       !.model_config = a.model_config]]
    /\ UNCHANGED <<engine_vars, fn_vars, srv_vars, reg_vars>>

\* lines 41-42: if model_config is None: model_config = get_default_config()
call_model_config(i) ==
    /\ frames[i].pc = "line41"
    /\ frames' = [(IF frames[i].model_config = <<>>
                   THEN assign_model_config(frames, i, <<get_default_config(environ)>>)
                   ELSE frames)
                     EXCEPT ![i].pc = "line44"]
    /\ UNCHANGED <<engine_vars, fn_vars, srv_vars, reg_vars>>

\* lines 44-53, and the adapter up to its httpx.post
call_model_dispatch(i) ==
    /\ frames[i].pc = "line44"
    /\ LET a == frames[i].args
           cfg == frames[i].model_config[1]
           backend == cfg_get(cfg, "backend", "ollama")
           branch == dispatch(backend)
       IN  frames' =
             IF branch = "unsupported"
             THEN [frames EXCEPT ![i].pc = "done",
                                 ![i].outcome =
                                     Raise(Exc("ValueError", "Unsupported backend: " \o backend))]
             ELSE [frames EXCEPT ![i].pc = "sent",
                                 ![i].request =
                        CASE branch = "ollama" ->
                               call_ollama_request(a.prompt, a.tools, cfg,
                                                   a.temperature, a.max_tokens)
                          [] branch = "vllm" ->
                               call_vllm_request(a.prompt, a.tools, cfg,
                                                 a.temperature, a.max_tokens)
                          [] branch = "openai" ->
                               call_openai_compatible_request(a.prompt, a.tools, cfg,
                                   a.temperature, a.max_tokens, environ)]
    /\ UNCHANGED <<engine_vars, fn_vars, srv_vars, reg_vars>>

\* the rest of the adapter's try/except once httpx has acted on the request
call_model_finish(i, http) ==
    /\ frames[i].pc = "sent"
    /\ frames' = [frames EXCEPT ![i].pc = "done",
                                ![i].http = http,
                                ![i].outcome = adapter_try(frames[i].request.adapter, http,
                                                           frames[i].model_config[1])]
    /\ UNCHANGED <<engine_vars, fn_vars, srv_vars, reg_vars>>

\* the call has returned or raised: its frame is gone
call_model_leave(i) ==
    /\ frames[i].pc = "done"
    /\ frames' = [frames EXCEPT ![i] = NoFrame]
    /\ UNCHANGED <<engine_vars, fn_vars, srv_vars, reg_vars>>

Enter == \E i \in Invocations, a \in ConcArgs : call_model_enter(i, a)
ResolveConfig == \E i \in Invocations : call_model_config(i)
Dispatch == \E i \in Invocations : call_model_dispatch(i)
Finish == \E i \in Invocations, http \in ConcHttp : call_model_finish(i, http)
Leave == \E i \in Invocations : call_model_leave(i)

NextConc ==
    \/ Enter
    \/ ResolveConfig
    \/ Dispatch
    \/ Finish
    \/ Leave

SpecConc == InitConc /\ [][NextConc]_vars

(***************************************************************************)
(* server.py: the chat-completions front door handling one request.        *)
(***************************************************************************)
InitServer ==
    /\ environ \in ServerEnvirons
    /\ EngineIdle
    /\ FnIdle
    /\ ServerIdle
    /\ ConcIdle
    /\ RegistryIdle

\* lines 96-122 up to the httpx.post inside call_model: an exception of the
\* formatter or of call_model ends the handler with the 500 response
chat_completions(request) ==
    /\ http_request = NoRequest
    /\ http_request' = request
    /\ LET model_config == get_model_config(request.model, environ)
           formatted == formatted_tools_for(request.tools,
                                            cfg_get(model_config, "tool_format", "json"))
           prompt == build_prompt_from_messages(request.messages)
       IN  IF formatted.kind = "raise"
           THEN /\ http_response' = handler_result(formatted)
                /\ UNCHANGED <<engine_vars, fn_vars, conc_vars, reg_vars>>
           ELSE /\ call_model(prompt, formatted.value, <<model_config>>,
                              request.temperature, request.max_tokens)
                /\ http_response' = IF outcome'.kind = "raise"
                                    THEN handler_result(outcome')
                                    ELSE NoResponse

ChatCompletions == \E request \in ChatCompletionRequests : chat_completions(request)

\* the rest of the handler once httpx has acted on the request of call_model
chat_completions_return(http) ==
    /\ http_request # NoRequest
    /\ adapter_finish(http)
    /\ http_response' = handler_result(outcome')
    /\ UNCHANGED http_request

ChatCompletionsReturn == \E http \in HttpOutcomes : chat_completions_return(http)

NextServer ==
    \/ ChatCompletions
    \/ ChatCompletionsReturn

SpecServer == InitServer /\ [][NextServer]_vars

(***************************************************************************)
(* function_registry.py: one FunctionRegistry, from its construction on.   *)
(***************************************************************************)
FunctionNames == { <<"f">>, <<"g">> }
Handlers == {"h1", "h2"}
NoHandler == "None"
Arguments == { PyDict(<<>>), PyDict(<< <<<<"x">>, PyInt(1)>> >>) }

\* d[k] = x on a dict kept as a function
Store(d, k, x) == [n \in DOMAIN d \cup {k} |-> IF n = k THEN x ELSE d[n]]

\* handler(**arguments): the call of an opaque callable, named by the
\* callable and its arguments
invoke(handler, arguments) == Return(PyList(<<PyStr(<<handler>>), arguments>>))

InitRegistry ==
    /\ environ = <<>>
    /\ EngineIdle
    /\ FnIdle
    /\ ServerIdle
    /\ ConcIdle
    /\ RegistryIdle

\* lines 19-44
register_function(name, description, parameters, handler) ==
    /\ Len(reg_log) < MaxRegistrations
    /\ functions' = Store(functions, name,
                          [name |-> name, description |-> description,
                           parameters |-> parameters])
    /\ handlers' = IF handler # NoHandler THEN Store(handlers, name, handler) ELSE handlers
    /\ reg_log' = Append(reg_log, [name |-> name, handler |-> handler])
    /\ executed' = NoCall
    /\ UNCHANGED <<engine_vars, fn_vars, srv_vars, conc_vars>>

RegisterFunction ==
    \E name \in FunctionNames, description \in ToolDescriptions,
       handler \in Handlers \cup {NoHandler} :
        register_function(name, description, PyDict(<<>>), handler)

\* lines 65-77: the outcome of execute_function on a registry
execute_outcome(fns, hds, name, arguments) ==
    IF name \notin DOMAIN fns
    THEN Raise(Exc("ValueError", "Function not found: " \o Spell(name)))
    ELSE IF name \in DOMAIN hds
    THEN invoke(hds[name], arguments)
    ELSE Return(PyDict(<< <<S_function, PyStr(name)>>,
                          <<S_arguments, arguments>>,
                          <<S_status, PyStr(S_registered_but_no_handler)>> >>))

\* lines 54-77; the registry as it was at the call is kept with the outcome
execute_function(name, arguments) ==
    /\ executed' = [name |-> name, arguments |-> arguments,
                    outcome |-> execute_outcome(functions, handlers, name, arguments),
                    functions |-> functions, handlers |-> handlers]
    /\ UNCHANGED <<functions, handlers, reg_log>>
    /\ UNCHANGED <<engine_vars, fn_vars, srv_vars, conc_vars>>

ExecuteFunction ==
    \E name \in FunctionNames, arguments \in Arguments : execute_function(name, arguments)

NextRegistry ==
    \/ RegisterFunction
    \/ ExecuteFunction

SpecRegistry == InitRegistry /\ [][NextRegistry]_vars

(***************************************************************************)
(* The pure functions, each applied to an input drawn by the initial state. *)
(***************************************************************************)
InitFn ==
    /\ environ = <<>>
    /\ EngineIdle
    /\ ServerIdle
    /\ ConcIdle
    /\ RegistryIdle
    /\ ret = NotApplied
    /\ \/ fn = "format_tools_for_model"
          /\ arg \in {<<tl, f>> : tl \in ToolLists, f \in FormatTypes}
       \/ fn = "json_tools_to_xml"
          /\ arg \in {<<tl>> : tl \in ToolLists}
       \/ fn = "xml_tools_to_json"
          /\ arg \in {<<PyStr(x)>> : x \in XmlStrings}
       \/ fn = "parse_function_call_response"
          /\ arg \in {<<r, c>> : r \in RawResponses, c \in NormConfigs}
       \/ fn = "extract_function_call"
          /\ arg \in {<<PyStr(x)>> : x \in Texts}
       \/ fn = "build_prompt_from_messages"
          /\ arg \in {<<ms>> : ms \in MessageLists}

Apply(name, result) ==
    /\ fn = name
    /\ ret = NotApplied
    /\ ret' = result
    /\ UNCHANGED <<engine_vars, fn, arg, srv_vars, conc_vars, reg_vars>>

ApplyFormatToolsForModel ==
    Apply("format_tools_for_model", Return(format_tools_for_model(arg[1], arg[2])))

ApplyJsonToolsToXml ==
    Apply("json_tools_to_xml", Return(json_tools_to_xml(arg[1])))

ApplyXmlToolsToJson ==
    Apply("xml_tools_to_json", xml_tools_to_json(arg[1].v))

ApplyParseFunctionCallResponse ==
    Apply("parse_function_call_response", parse_function_call_response(arg[1], arg[2]))

ApplyExtractFunctionCall ==
    Apply("extract_function_call", extract_function_call(arg[1].v))

ApplyBuildPromptFromMessages ==
    Apply("build_prompt_from_messages", Return(PyStr(build_prompt_from_messages(arg[1]))))

NextFn ==
    \/ ApplyFormatToolsForModel
    \/ ApplyJsonToolsToXml
    \/ ApplyXmlToolsToJson
    \/ ApplyParseFunctionCallResponse
    \/ ApplyExtractFunctionCall
    \/ ApplyBuildPromptFromMessages

SpecFn == InitFn /\ [][NextFn]_vars

(***************************************************************************)
(* Properties of the dispatch router and the adapters (under Spec).        *)
(***************************************************************************)
SupportedBackends == {"ollama", "vllm", "openai"}
Called == pc # "idle"
Backend == cfg_get(config, "backend", "ollama")

\* C1: a configuration whose backend value is none of ollama / vllm / openai
\* makes call_model fail with the unsupported-backend error (a ValueError
\* naming the backend) without any outbound HTTP request, whatever the other
\* arguments are.
C1_UnsupportedBackendFails ==
    (Called /\ "backend" \in DOMAIN config /\ config.backend \notin SupportedBackends)
        => /\ pc = "done"
           /\ outcome = Raise(Exc("ValueError", "Unsupported backend: " \o config.backend))
           /\ requests = <<>>

C1_Witness ==
    /\ pc = "done"
    /\ "backend" \in DOMAIN config
    /\ config.backend = "unknown-xyz"
    /\ args.tools # None
    /\ args.prompt # <<>>
    /\ outcome.kind = "raise"
    /\ requests = <<>>

\* C2: when the outbound request of an adapter fails (httpx.post raises, the
\* status is not a success, or the body does not decode), call_model raises
\* that very exception, returns no response, and has sent exactly one
\* request.
C2_FailureRaisedOnceNoRetry ==
    (pc = "done" /\ fault # NoExc)
        => /\ outcome.kind = "raise"
           /\ outcome.exc = fault
           /\ outcome.value = None
           /\ Len(requests) = 1

C2_Witness ==
    /\ pc = "done"
    /\ Backend = "vllm"
    /\ fault = Exc("ReadTimeout", "")
    /\ outcome = Raise(fault)
    /\ Len(requests) = 1

\* C3: for a supported backend call_model issues exactly one outbound
\* request, through the adapter of that backend and to that adapter's
\* endpoint, and none through the other two adapters.
EndpointPath(backend) ==
    CASE backend = "ollama" -> "/api/generate"
      [] backend = "vllm" -> "/v1/chat/completions"
      [] backend = "openai" -> "/chat/completions"
DefaultBaseUrl(backend) ==
    CASE backend = "ollama" -> "http://localhost:11434"
      [] backend = "vllm" -> "http://localhost:8000"
      [] backend = "openai" -> "https://api.openai.com/v1"

C3_ExactlyOneAdapter ==
    (Called /\ Backend \in SupportedBackends)
        => /\ Len(requests) = 1
           /\ requests[1].adapter = Backend
           /\ requests[1].url =
                  cfg_get(config, "base_url", DefaultBaseUrl(Backend)) \o EndpointPath(Backend)
           /\ \A i \in 1..Len(requests) : requests[i].adapter = Backend

C3_Witness ==
    /\ pc = "done"
    /\ Backend = "openai"
    /\ outcome.kind = "return"
    /\ Len(requests) = 1
    /\ requests[1].url = "https://api.openai.com/v1/chat/completions"

\* C10: the payload of the local-generate adapter.  Markup text: the prompt
\* is the caller's prompt followed by the markup (after a blank line), and
\* there is no context field.  Non-empty structured tools: the prompt is the
\* caller's prompt and the context field is text that decodes back to the
\* tools.  No tools: the prompt is the caller's prompt, no context field.
OllamaPayload == requests[1].json
EndsWith(s, suffix) ==
    /\ Len(suffix) <= Len(s)
    /\ SubSeq(s, Len(s) - Len(suffix) + 1, Len(s)) = suffix

C10_OllamaPayloadTools ==
    (Called /\ Backend = "ollama" /\ Len(requests) >= 1)
        => /\ IsStr(args.tools)
                => /\ StartsAt(DictGet(OllamaPayload, S_prompt, None).v, 1, args.prompt)
                   /\ EndsWith(DictGet(OllamaPayload, S_prompt, None).v, args.tools.v)
                   /\ args.tools.v # <<>> =>
                          DictGet(OllamaPayload, S_prompt, None)
                              = PyStr(args.prompt \o <<"\n", "\n">> \o args.tools.v)
                   /\ ~HasKey(OllamaPayload, S_context)
           /\ (args.tools.t \in {"list", "dict"} /\ args.tools.v # <<>>)
                => /\ DictGet(OllamaPayload, S_prompt, None) = PyStr(args.prompt)
                   /\ HasKey(OllamaPayload, S_context)
                   /\ IsStr(DictGet(OllamaPayload, S_context, None))
                   /\ json_loads(DictGet(OllamaPayload, S_context, PyStr(<<>>)).v)
                          = Return(args.tools)
           /\ args.tools = None
                => /\ DictGet(OllamaPayload, S_prompt, None) = PyStr(args.prompt)
                   /\ ~HasKey(OllamaPayload, S_context)

C10_Witness ==
    /\ pc = "sent"
    /\ Backend = "ollama"
    /\ IsStr(args.tools)
    /\ StartsAt(args.tools.v, 1, X_tools_open \o X_tool_open)
    /\ args.prompt # <<>>
    /\ Len(DictGet(OllamaPayload, S_prompt, None).v)
           = Len(args.prompt) + 2 + Len(args.tools.v)

\* C11: in the two chat-completion adapters (vllm, openai) the payload has
\* a tools field exactly when tools are present (given and not empty); the
\* field is always a list: a list of tools is attached as it is, any other
\* value becomes the only element of a one-element list; and the messages
\* array holds exactly one entry, of role user, whose content is the prompt.
ChatPayload == requests[1].json
ToolsPresent(tools) == tools # None /\ tools.v # <<>>
C11_ChatPayloadTools ==
    (Called /\ Backend \in {"vllm", "openai"} /\ Len(requests) >= 1)
        => /\ HasKey(ChatPayload, S_tools) <=> ToolsPresent(args.tools)
           /\ HasKey(ChatPayload, S_tools)
                => /\ DictGet(ChatPayload, S_tools, None).t = "list"
                   /\ args.tools.t = "list"
                          => DictGet(ChatPayload, S_tools, None) = args.tools
                   /\ args.tools.t # "list"
                          => DictGet(ChatPayload, S_tools, None).v = <<args.tools>>
           /\ DictGet(ChatPayload, S_messages, None)
                  = PyList(<<PyDict(<< <<S_role, PyStr(S_user)>>,
                                       <<S_content, PyStr(args.prompt)>> >>)>>)

C11_Witness ==
    /\ pc = "sent"
    /\ Backend = "openai"
    /\ args.tools.t = "dict"
    /\ HasKey(args.tools, S_function)
    /\ args.prompt # <<>>
    /\ DictGet(ChatPayload, S_tools, None) = PyList(<<args.tools>>)
    /\ Len(DictGet(ChatPayload, S_messages, None).v) = 1

(***************************************************************************)
(* Properties of the pure functions (under SpecFn).                        *)
(***************************************************************************)
Applied(name) == fn = name /\ ret # NotApplied

\* Reading a <tools> document back: the tool elements in document order.  An
\* attribute value ends at the first quote, element text ends at the first
\* "<", which must open the expected closing tag.
FirstChar(s, i, c) ==
    IF \E k \in i..Len(s) : s[k] = c
    THEN CHOOSE k \in i..Len(s) : s[k] = c /\ \A h \in i..(k - 1) : s[h] # c
    ELSE Len(s) + 1
NoElement == [ok |-> FALSE, name |-> <<>>, description |-> <<>>, parameters |-> FALSE, end |-> 0]
ReadToolClose(s, i, name, description, parameters) ==
    IF StartsAt(s, i, X_tool_close)
    THEN [ok |-> TRUE, name |-> name, description |-> description,
          parameters |-> parameters, end |-> i + Len(X_tool_close)]
    ELSE NoElement
ReadParametersText(s, name, description, j) ==
    IF StartsAt(s, j, X_parameters_close)
    THEN ReadToolClose(s, j + Len(X_parameters_close), name, description, TRUE)
    ELSE NoElement
ReadParameters(s, i, name, description) ==
    IF StartsAt(s, i, X_parameters_open)
    THEN ReadParametersText(s, name, description,
                            FirstChar(s, i + Len(X_parameters_open), "<"))
    ELSE ReadToolClose(s, i, name, description, FALSE)
ReadDescriptionText(s, i, name, j) ==
    IF StartsAt(s, j, X_description_close)
    THEN ReadParameters(s, j + Len(X_description_close), name, SubSeq(s, i, j - 1))
    ELSE NoElement
ReadDescription(s, i, name) ==
    IF StartsAt(s, i, X_description_open)
    THEN ReadDescriptionText(s, i + Len(X_description_open), name,
                             FirstChar(s, i + Len(X_description_open), "<"))
    ELSE NoElement
ReadName(s, i, j) ==
    IF StartsAt(s, j, X_tool_open_end)
    THEN ReadDescription(s, j + Len(X_tool_open_end), SubSeq(s, i, j - 1))
    ELSE NoElement
ReadTool(s, i) ==
    IF StartsAt(s, i, X_tool_open)
    THEN ReadName(s, i + Len(X_tool_open), FirstChar(s, i + Len(X_tool_open), "'"))
    ELSE NoElement
RECURSIVE ReadTools(_, _, _)
ReadNext(s, el, acc) ==
    IF el.ok
    THEN ReadTools(s, el.end, Append(acc, [name |-> el.name, description |-> el.description,
                                           parameters |-> el.parameters]))
    ELSE [ok |-> FALSE, tools |-> <<>>]
ReadTools(s, i, acc) ==
    IF StartsAt(s, i, X_tools_close) /\ i + Len(X_tools_close) = Len(s) + 1
    THEN [ok |-> TRUE, tools |-> acc]
    ELSE ReadNext(s, ReadTool(s, i), acc)
ReadDocument(s) ==
    IF StartsAt(s, 1, X_tools_open)
    THEN ReadTools(s, 1 + Len(X_tools_open), <<>>)
    ELSE [ok |-> FALSE, tools |-> <<>>]

\* what each input tool must show up as
ToolFunction(tool) == DictGet(tool, S_function, PyDict(<<>>))
ExpectedElement(tool) ==
    [name |-> DictGet(ToolFunction(tool), S_name, PyStr(<<>>)).v,
     description |-> DictGet(ToolFunction(tool), S_description, PyStr(<<>>)).v,
     parameters |-> DictGet(ToolFunction(tool), S_parameters, PyDict(<<>>)).v # <<>>]
ExpectedElements(tools) == [i \in 1..Len(tools.v) |-> ExpectedElement(tools.v[i])]

\* C6: json_tools_to_xml yields one <tools> element holding one tool
\* element per input tool, in input order, each with the tool's name and
\* description and with a parameters child exactly when the tool has a
\* non-empty parameter schema.
C6_OneToolElementPerTool ==
    Applied("json_tools_to_xml")
        => ReadDocument(ret.value.v) = [ok |-> TRUE, tools |-> ExpectedElements(arg[1])]

\* C7: format_tools_for_model with format_type "json" returns its input list
\* unchanged.
C7_JsonFormatIsIdentity ==
    (Applied("format_tools_for_model") /\ arg[2] = "json")
        => ret = Return(arg[1])

C7_Witness ==
    /\ Applied("format_tools_for_model")
    /\ arg[2] = "json"
    /\ Len(arg[1].v) = 2
    /\ arg[1].v[1] # arg[1].v[2]
    /\ ret.value = arg[1]

\* C8: xml_tools_to_json fails with NotSupported for every markup string.
C8_ReverseFormatNotSupported ==
    Applied("xml_tools_to_json")
        => /\ ret.kind = "raise"
           /\ ret.exc.type = "NotSupported"

\* the substring s[i..j] matches \{[^}]*"name"[^}]*\}
Matches(s, i, j) ==
    /\ s[i] = "{"
    /\ s[j] = "}"
    /\ \A k \in (i + 1)..(j - 1) : s[k] # "}"
    /\ \E k \in (i + 1)..(j - Len(RE_name)) : StartsAt(s, k, RE_name)
SomeSubstringMatches(s) == \E i \in 1..Len(s) : \E j \in (i + 1)..Len(s) : Matches(s, i, j)
RawText == DictGet(arg[1], S_response, PyStr(<<>>)).v
NormalizesText ==
    /\ Applied("parse_function_call_response")
    /\ ~HasKey(arg[1], S_choices)
    /\ HasKey(arg[1], S_response)

\* C4: a reply without "choices" but with the flat text becomes a response
\* with exactly one choice whose content is the text and whose usage counts
\* are zero; finish_reason is "function_call" exactly when extraction on the
\* text yields a result, which is then the function_call field; otherwise
\* finish_reason is "stop" and function_call is None.
OutChoices == DictGet(ret.value, S_choices, PyList(<<>>)).v
OutMessage == DictGet(OutChoices[1], S_message, None)
OutFinish == DictGet(OutChoices[1], S_finish_reason, None)
OutCall == DictGet(OutMessage, S_function_call, PyStr(<<>>))
C4_FlatTextNormalized ==
    NormalizesText
        => /\ ret.kind = "return"
           /\ Len(OutChoices) = 1
           /\ DictGet(OutMessage, S_content, None) = PyStr(RawText)
           /\ DictGet(ret.value, S_usage, None)
                  = PyDict(<< <<S_prompt_tokens, PyInt(0)>>,
                              <<S_completion_tokens, PyInt(0)>>,
                              <<S_total_tokens, PyInt(0)>> >>)
           /\ OutFinish \in {PyStr(S_function_call), PyStr(S_stop)}
           /\ (OutFinish = PyStr(S_function_call))
                  <=> (extract_function_call(RawText).value # None)
           /\ OutCall = extract_function_call(RawText).value
           /\ (OutFinish = PyStr(S_stop)) => (OutCall = None)

C4_Witness ==
    /\ NormalizesText
    /\ SomeSubstringMatches(RawText)
    /\ OutFinish = PyStr(S_function_call)
    /\ OutCall = PyDict(<< <<S_name, PyInt(1)>> >>)
    /\ Len(RawText) > Len(RE_name) + 4

\* C5: the normalizer returns the reply unchanged when it has a "choices"
\* key (with or without the flat text field) and when it has neither
\* "choices" nor the flat text field.
C5_PassThrough ==
    (/\ Applied("parse_function_call_response")
     /\ HasKey(arg[1], S_choices) \/ ~HasKey(arg[1], S_response))
        => ret = Return(arg[1])

C5_Witness ==
    /\ Applied("parse_function_call_response")
    /\ HasKey(arg[1], S_choices)
    /\ HasKey(arg[1], S_response)
    /\ SomeSubstringMatches(RawText)
    /\ ret.value = arg[1]

\* C9: extraction never raises: it returns None when no substring matches
\* the pattern and None when the matched substring does not parse, it
\* returns a value only when a substring matches, and normalizing a reply
\* that carries flat text therefore never fails.
C9_ExtractionNeverRaises ==
    /\ Applied("extract_function_call")
           => /\ ret.kind = "return"
              /\ ~SomeSubstringMatches(arg[1].v) => ret.value = None
              /\ (/\ SomeSubstringMatches(arg[1].v)
                  /\ json_loads(group(arg[1].v, re_search(arg[1].v))).kind = "raise")
                     => ret.value = None
              /\ ret.value # None => SomeSubstringMatches(arg[1].v)
    /\ NormalizesText => ret.kind = "return"

C9_Witness ==
    /\ Applied("extract_function_call")
    /\ SomeSubstringMatches(arg[1].v)
    /\ json_loads(group(arg[1].v, re_search(arg[1].v))).kind = "raise"
    /\ ret = Return(None)

\* C14: extraction looks at one candidate only, the first substring of the
\* text that matches the pattern (the match starting leftmost).  When that
\* substring parses, the result is its parsed value; when it does not, the
\* result is None, even if a substring further on matches and parses.
IsFirstMatch(s, i, j) ==
    /\ Matches(s, i, j)
    /\ \A i2 \in 1..(i - 1) : \A j2 \in (i2 + 1)..Len(s) : ~Matches(s, i2, j2)
ParsingMatchAfter(s, i) ==
    \E i2 \in (i + 1)..Len(s) : \E j2 \in (i2 + 1)..Len(s) :
        /\ Matches(s, i2, j2)
        /\ json_loads(SubSeq(s, i2, j2)).kind = "return"

C14_OnlyFirstMatchTried ==
    Applied("extract_function_call")
        => \A i \in 1..Len(arg[1].v) : \A j \in (i + 1)..Len(arg[1].v) :
               IsFirstMatch(arg[1].v, i, j)
                   => IF json_loads(SubSeq(arg[1].v, i, j)).kind = "return"
                      THEN ret = json_loads(SubSeq(arg[1].v, i, j))
                      ELSE ret = Return(None)

C14_Witness ==
    /\ Applied("extract_function_call")
    /\ \E i \in 1..Len(arg[1].v) : \E j \in (i + 1)..Len(arg[1].v) :
           /\ IsFirstMatch(arg[1].v, i, j)
           /\ json_loads(SubSeq(arg[1].v, i, j)).kind = "raise"
           /\ ParsingMatchAfter(arg[1].v, i)
    /\ ret = Return(None)

\* C16: for a message sequence with at least one message the prompt is not
\* empty and its lines are exactly the "role: content" lines of the
\* messages, one per message and in the order of the messages, whatever
\* the roles and contents are.
RECURSIVE SplitLines(_, _)
SplitLines(s, line) ==
    IF s = <<>> THEN <<line>>
    ELSE IF Head(s) = "\n" THEN <<line>> \o SplitLines(Tail(s), <<>>)
    ELSE SplitLines(Tail(s), Append(line, Head(s)))

C16_OneLinePerMessage ==
    (Applied("build_prompt_from_messages") /\ Len(arg[1]) >= 1)
        => /\ ret.kind = "return"
           /\ ret.value.v # <<>>
           /\ Len(SplitLines(ret.value.v, <<>>)) = Len(arg[1])
           /\ \A i \in 1..Len(arg[1]) :
                  SplitLines(ret.value.v, <<>>)[i]
                      = arg[1][i].role \o <<":", " ">> \o arg[1][i].content

(***************************************************************************)
(* Properties of the front door (under SpecServer).                        *)
(***************************************************************************)
Answered == http_response # NoResponse
RequestFormat == cfg_get(get_model_config(http_request.model, environ), "tool_format", "json")
FormatterFails ==
    /\ http_request.tools # None
    /\ http_request.tools.v # <<>>
    /\ RequestFormat = "xml"
    /\ \E i \in 1..Len(http_request.tools.v) :
           ~HasKey(http_request.tools.v[i], S_function)
               \/ DictGet(http_request.tools.v[i], S_function, None).t # "dict"

\* C12: the front door answers a request with status 200 or status 500 and
\* nothing else; it answers 200 only when call_model returned, and the body
\* is then what call_model returned; a failure of the formatter, an
\* unsupported backend and a failure of the outbound request are each
\* answered with status 500; the request is answered as soon as the
\* handler can no longer proceed.
C12_FrontDoorStatus ==
    /\ Answered => http_response.status \in {200, 500}
    /\ (Answered /\ http_response.status = 200)
           => /\ pc = "done"
              /\ outcome.kind = "return"
              /\ fault = NoExc
              /\ http_response.body = outcome.value
    /\ (http_request # NoRequest /\ FormatterFails)
           => /\ http_response.status = 500
              /\ requests = <<>>
    /\ (pc = "done" /\ Backend \notin SupportedBackends) => http_response.status = 500
    /\ (pc = "done" /\ fault # NoExc) => http_response.status = 500
    /\ (pc = "done" /\ outcome.kind = "raise") => http_response.status = 500
    /\ (http_request # NoRequest /\ ~Answered) => pc = "sent"

C12_Witness ==
    /\ http_request # NoRequest
    /\ Truthy(http_request.tools)
    /\ pc = "done"
    /\ Backend = "vllm"
    /\ fault = Exc("ConnectError", "")
    /\ http_response.status = 500
    /\ Len(requests) = 1

\* C15: a request with a non-empty tool list, the function_calling tool
\* format and a chat-completion backend (vllm, openai) gives an outbound
\* payload whose tools field is the list of the caller's tool schemas, one
\* entry per tool, in the order of the request.
C15_FunctionCallingPayload ==
    (/\ http_request # NoRequest
     /\ Truthy(http_request.tools)
     /\ RequestFormat = "function_calling"
     /\ Backend \in {"vllm", "openai"}
     /\ Len(requests) >= 1)
        => /\ HasKey(requests[1].json, S_tools)
           /\ DictGet(requests[1].json, S_tools, None) = http_request.tools

(***************************************************************************)
(* Properties of the function registry (under SpecRegistry).               *)
(***************************************************************************)
RegistrationsOf(name) == {i \in 1..Len(reg_log) : reg_log[i].name = name}
LastRegistration(name) ==
    reg_log[CHOOSE i \in RegistrationsOf(name) : \A j \in RegistrationsOf(name) : j <= i]

\* C17: execute_function follows the most recent register_function call of
\* the name: it invokes the handler that call supplied, and returns the
\* "registered_but_no_handler" record when that call supplied none; for a
\* name never registered it raises the not-found error and the registry's
\* functions and handlers stay as they were.
C17_ExecuteFollowsLastRegistration ==
    executed # NoCall
        => IF RegistrationsOf(executed.name) = {}
           THEN /\ executed.outcome.kind = "raise"
                /\ executed.outcome.exc.type = "ValueError"
                /\ functions = executed.functions
                /\ handlers = executed.handlers
           ELSE IF LastRegistration(executed.name).handler # NoHandler
           THEN executed.outcome
                    = invoke(LastRegistration(executed.name).handler, executed.arguments)
           ELSE /\ executed.outcome.kind = "return"
                /\ executed.outcome.value.t = "dict"
                /\ DictGet(executed.outcome.value, S_status, None)
                       = PyStr(S_registered_but_no_handler)

(***************************************************************************)
(* Properties of concurrent invocations (under SpecConc).                  *)
(***************************************************************************)
\* what one invocation sends and yields when it runs alone
SoloConfig(a, env) ==
    IF a.model_config = <<>> THEN get_default_config(env) ELSE a.model_config[1]
SoloBranch(a, env) == dispatch(cfg_get(SoloConfig(a, env), "backend", "ollama"))
SoloRequest(a, env) ==
    CASE SoloBranch(a, env) = "ollama" ->
           call_ollama_request(a.prompt, a.tools, SoloConfig(a, env),
                               a.temperature, a.max_tokens)
      [] SoloBranch(a, env) = "vllm" ->
           call_vllm_request(a.prompt, a.tools, SoloConfig(a, env),
                             a.temperature, a.max_tokens)
      [] SoloBranch(a, env) = "openai" ->
           call_openai_compatible_request(a.prompt, a.tools, SoloConfig(a, env),
                                          a.temperature, a.max_tokens, env)
      [] OTHER -> <<>>
SoloOutcome(a, env, http) ==
    IF SoloBranch(a, env) = "unsupported"
    THEN Raise(Exc("ValueError", "Unsupported backend: "
                                     \o cfg_get(SoloConfig(a, env), "backend", "ollama")))
    ELSE adapter_try(SoloBranch(a, env), http, SoloConfig(a, env))

\* C13: under every interleaving of two call_model invocations, and
\* whatever invocations ran, failed or were cancelled before, the request
\* an invocation sends and the result or error it ends with are those it
\* has when run alone on its own arguments and its own backend reply.
C13_NoInterference ==
    \A i \in Invocations :
        /\ frames[i].pc \in {"sent", "done"}
               => frames[i].request = SoloRequest(frames[i].args, environ)
        /\ frames[i].pc = "done"
               => frames[i].outcome = SoloOutcome(frames[i].args, environ, frames[i].http)

C13_Witness ==
    /\ frames[1].pc = "done"
    /\ frames[1].args.model_config # <<>>
    /\ frames[1].outcome = Raise(Exc("CancelledError", ""))
    /\ frames[2].pc = "sent"
    /\ frames[2].args.model_config = <<>>
    /\ frames[2].request.adapter # frames[1].request.adapter
    /\ frames[2].args.tools # frames[1].args.tools

====
